---- MODULE Spec2Model ----
(***************************************************************************)
(* Gauss-Hermite expansion engine (src/src/math_gausshermite.cpp).         *)
(*                                                                         *)
(* A `double` is modelled as a fixed-point number with SCALE steps per     *)
(* unit and the IEEE-754 special values: results beyond MAXD overflow to   *)
(* an infinity, results below one step underflow to zero, and NaN          *)
(* propagates and compares unequal to everything.                          *)
(***************************************************************************)
EXTENDS Integers, Sequences, FiniteSets, TLC

\* ------------------------------------------------------------------ bounds
\* steps per unit of the fixed-point doubles
SCALE == 1000
\* largest finite double, in units
MaxFinite == 100000
\* largest expansion order tried by the constructor
MaxOrder == 3
\* largest degree asked of hermiteArray (beyond the 8-entry sqrt table)
MaxNmax == 9
\* largest index asked of normn (beyond its five tabulated values)
MaxNormn == 11
\* largest order for which the number of Gauss-Legendre nodes is asked
MaxRuleOrder == 40
\* number of equal steps of the scaled variable z in [0,1]
ZSteps == 4
\* basis degrees asked of the matrix builder entry point are -1 .. MaxDegree
MaxDegree == 4

MAXD == MaxFinite * SCALE

\* ------------------------------------------------------- double arithmetic
Fin(n) == [k |-> "fin", v |-> n]
NaN == [k |-> "nan", v |-> 0]
PInf == [k |-> "inf", v |-> 1]
NInf == [k |-> "inf", v |-> -1]
INFINITY == PInf
Num(n) == Fin(n * SCALE)
Zero == Fin(0)
One == Fin(SCALE)

Abs(n) == IF n < 0 THEN -n ELSE n
Sgn(a) == IF a.v > 0 THEN 1 ELSE IF a.v < 0 THEN -1 ELSE 0
\* rounding of an exact result into the representable range
Round(n) == IF n > MAXD THEN PInf ELSE IF n < -MAXD THEN NInf ELSE Fin(n)

isNaN(a) == a.k = "nan"
isFinite(a) == a.k = "fin"

\* a == b, a != b, a < b, a >= b on doubles: every comparison with NaN is false
\* except !=
DEq(a, b) == ~isNaN(a) /\ ~isNaN(b) /\ a = b
DNe(a, b) == ~DEq(a, b)
DLt(a, b) ==
    /\ ~isNaN(a) /\ ~isNaN(b)
    /\ IF a.k = "inf" THEN a.v < 0 /\ b # a
       ELSE IF b.k = "inf" THEN b.v > 0
       ELSE a.v < b.v
DLe(a, b) == DLt(a, b) \/ DEq(a, b)

DNeg(a) == IF isNaN(a) THEN NaN ELSE [k |-> a.k, v |-> -a.v]

DAdd(a, b) ==
    IF isNaN(a) \/ isNaN(b) THEN NaN
    ELSE IF a.k = "inf" THEN (IF b.k = "inf" /\ b.v # a.v THEN NaN ELSE a)
    ELSE IF b.k = "inf" THEN b
    ELSE Round(a.v + b.v)

DSub(a, b) == DAdd(a, DNeg(b))

\* x*y/SCALE for x, y in 0..MAXD, computed in parts that stay below 2^31; a
\* product beyond the finite range is reported as MAXD + 1
MulFix(x, y) ==
    LET xh == x \div SCALE
        xl == x % SCALE
        yh == y \div SCALE
        yl == y % SCALE
    IN IF xh > 0 /\ yh > MaxFinite \div xh THEN MAXD + 1
       ELSE (xh * yh * SCALE) + (xh * yl) + (xl * yh) + ((xl * yl) \div SCALE)

\* x*SCALE/y for x in 0..MAXD and y in 1..MAXD, likewise
DivFix(x, y) ==
    LET q == x \div y
        r == x % y
    IN IF q > MaxFinite THEN MAXD + 1
       ELSE (q * SCALE)
            + (IF r <= 2147483647 \div SCALE THEN (r * SCALE) \div y ELSE r \div (y \div SCALE))

DMul(a, b) ==
    IF isNaN(a) \/ isNaN(b) THEN NaN
    ELSE IF a.k = "inf" \/ b.k = "inf"
         THEN (IF Sgn(a) = 0 \/ Sgn(b) = 0 THEN NaN
               ELSE [k |-> "inf", v |-> Sgn(a) * Sgn(b)])
    ELSE Round(Sgn(a) * Sgn(b) * MulFix(Abs(a.v), Abs(b.v)))

DDiv(a, b) ==
    IF isNaN(a) \/ isNaN(b) THEN NaN
    ELSE IF a.k = "inf"
         THEN (IF b.k = "inf" THEN NaN
               ELSE [k |-> "inf", v |-> IF Sgn(b) < 0 THEN -a.v ELSE a.v])
    ELSE IF b.k = "inf" THEN Zero
    ELSE IF b.v = 0
         THEN (IF a.v = 0 THEN NaN ELSE [k |-> "inf", v |-> Sgn(a)])
    ELSE Round(Sgn(a) * Sgn(b) * DivFix(Abs(a.v), Abs(b.v)))

pow_2(a) == DMul(a, a)

\* fmax(a, b): the other argument when one is NaN
fmax(a, b) ==
    IF isNaN(a) THEN b
    ELSE IF isNaN(b) THEN a
    ELSE IF DLt(a, b) THEN b ELSE a

\* floor of the square root of a natural number, by bisection
RECURSIVE ISqrtIn(_, _, _)
ISqrtIn(n, lo, hi) ==
    IF hi - lo <= 1 THEN lo
    ELSE LET mid == (lo + hi) \div 2
         IN IF mid * mid <= n THEN ISqrtIn(n, mid, hi) ELSE ISqrtIn(n, lo, mid)
ISqrt(n) == ISqrtIn(n, 0, 46341)

\* sqrt(a): NaN for a negative argument
sqrt(a) ==
    IF isNaN(a) THEN NaN
    ELSE IF a.k = "inf" THEN (IF a.v > 0 THEN PInf ELSE NaN)
    ELSE IF a.v < 0 THEN NaN
    ELSE IF a.v <= 2147483647 \div SCALE THEN Fin(ISqrt(a.v * SCALE))
    ELSE Fin(ISqrt((a.v \div 100) * SCALE) * 10)

\* e^r for 0 <= r < 1 (in steps), by its power series
RECURSIVE ExpSeries(_, _, _, _)
ExpSeries(r, i, term, acc) ==
    IF term = 0 \/ i > 12 THEN acc
    ELSE LET t == (term * r) \div (i * SCALE)
         IN ExpSeries(r, i + 1, t, acc + t)
\* e, in steps
ExpOne == SCALE + ExpSeries(SCALE, 1, SCALE, 0)
\* e^n * m for a natural n, stopping once the result is out of range
RECURSIVE ExpScale(_, _)
ExpScale(n, m) ==
    IF n = 0 \/ m > MAXD THEN m
    ELSE ExpScale(n - 1, MulFix(m, ExpOne))
\* e^(v/SCALE) for v >= 0, in steps (above MAXD when it overflows)
ExpPos(v) == ExpScale(v \div SCALE, SCALE + ExpSeries(v % SCALE, 1, SCALE, 0))

\* exp(a): exp(-inf) = 0, exp(+inf) = +inf, overflow to +inf, underflow to 0
exp(a) ==
    IF isNaN(a) THEN NaN
    ELSE IF a.k = "inf" THEN (IF a.v > 0 THEN PInf ELSE Zero)
    ELSE IF a.v >= 0 THEN Round(ExpPos(a.v))
    ELSE LET e == ExpPos(-a.v)
         IN IF e > MAXD THEN Zero ELSE Fin((SCALE * SCALE) \div e)

M_SQRT2 == sqrt(Num(2))

M_SQRTPI == Fin((17725 * SCALE) \div 10000)
QUADORDER == 7

\* a decimal literal 0.dddd cut to the steps of the fixed-point doubles
Dec4(d) == Fin((d * SCALE) \div 10000)

\* -------------------------------------------------- BsplineInterpolator1d
\* the knots handed to the entry point
Grids == { <<Num(-1), Zero, One>>, <<Zero, One>>, <<Zero>> }
\* math::BsplineInterpolator1d<N>(grid): the basis of degree N over the grid
BsplineInterpolator1d(N, grid) ==
    [degree |-> N, xvalues |-> grid, numValues |-> Len(grid) + N - 1]
\* knot i (from 0) of the basis: the grid with its end points repeated
Knot(interp, i) ==
    IF i < interp.degree THEN interp.xvalues[1]
    ELSE IF i >= interp.degree + Len(interp.xvalues)
         THEN interp.xvalues[Len(interp.xvalues)]
    ELSE interp.xvalues[i - interp.degree + 1]
\* the B-spline of degree k starting at knot i, at x (Cox-de Boor recursion;
\* the last segment of the grid includes its right end)
RECURSIVE BsplineValue(_, _, _, _)
BsplineValue(interp, k, i, x) ==
    IF k = 0
    THEN (IF /\ DLe(Knot(interp, i), x)
             /\ DLt(Knot(interp, i), Knot(interp, i + 1))
             /\ \/ DLt(x, Knot(interp, i + 1))
                \/ /\ DEq(x, Knot(interp, i + 1))
                   /\ DEq(x, interp.xvalues[Len(interp.xvalues)])
          THEN One ELSE Zero)
    ELSE LET d1 == DSub(Knot(interp, i + k), Knot(interp, i))
             d2 == DSub(Knot(interp, i + k + 1), Knot(interp, i + 1))
             a == IF DEq(d1, Zero) THEN Zero
                  ELSE DMul(DDiv(DSub(x, Knot(interp, i)), d1),
                            BsplineValue(interp, k - 1, i, x))
             b == IF DEq(d2, Zero) THEN Zero
                  ELSE DMul(DDiv(DSub(Knot(interp, i + k + 1), x), d2),
                            BsplineValue(interp, k - 1, i + 1, x))
         IN DAdd(a, b)
\* basis function j (from 0) of the basis, at x
BsplineFunction(interp, j, x) == BsplineValue(interp, interp.degree, j, x)
\* the index (from 0) of the grid segment that holds x
RECURSIVE BsplineSegment(_, _, _)
BsplineSegment(interp, x, n) ==
    IF n + 2 >= Len(interp.xvalues) \/ DLt(x, interp.xvalues[n + 2]) THEN n
    ELSE BsplineSegment(interp, x, n + 1)
RECURSIVE BsplineWindow(_, _, _, _)
BsplineWindow(interp, x, leftInd, b) ==
    IF b > interp.degree THEN <<>>
    ELSE <<BsplineFunction(interp, leftInd + b, x)>>
         \o BsplineWindow(interp, x, leftInd, b + 1)
\* interp.nonzeroComponents(x, 0, bspl): the index of the leftmost basis
\* function that may be non-zero at x, and the values of the N+1 functions
\* from it on
nonzeroComponents(interp, x) ==
    LET leftInd == BsplineSegment(interp, x, 0)
    IN [leftInd |-> leftInd, bspl |-> BsplineWindow(interp, x, leftInd, 0)]

\* ------------------------------------------------------- input functions
\* the functions handed in as math::IFunction
Fncs == {"zero", "box", "step", "gauss"}
\* the basis functions of degree 0..3 over the grids, as functions handed in
BasisFncs ==
    { [interp |-> BsplineInterpolator1d(N, grid), j |-> j] :
        N \in 0..3, grid \in Grids, j \in 0..4 }
\* (the grids tried differ in length, which names them)
BasisFncName(bf) ==
    "B" \o ToString(bf.interp.degree) \o "_" \o ToString(Len(bf.interp.xvalues))
        \o "_" \o ToString(bf.j)
Fnc(f, x) ==
    CASE f = "zero" -> Zero
      [] f = "box" -> IF DLe(Num(-1), x) /\ DLe(x, Num(1)) THEN One ELSE Zero
      [] f = "step" -> IF DLe(Zero, x) /\ DLe(x, Num(2)) THEN One ELSE Zero
      [] f = "gauss" ->
           DDiv(exp(DMul(Fin(-(SCALE \div 2)), pow_2(x))), DMul(M_SQRT2, M_SQRTPI))
      [] OTHER ->
           LET bf == CHOOSE c \in BasisFncs : BasisFncName(c) = f
           IN IF bf.j < bf.interp.numValues THEN BsplineFunction(bf.interp, bf.j, x)
              ELSE Zero

\* a vector of n doubles, all equal to d
RECURSIVE Filled(_, _)
Filled(n, d) == IF n <= 0 THEN <<>> ELSE <<d>> \o Filled(n - 1, d)

\* -------------------------------------------------------- MomentsIntegrand
\* eval(vars, values) for the scalar z = vars[0]; the C array values[0..2] is
\* the sequence values[1..3]
MomentsIntegrand_eval(f, z) ==
    LET x == exp(DSub(DDiv(One, DSub(One, z)), DDiv(One, z)))
        j == DMul(x, DAdd(DDiv(One, pow_2(DSub(One, z))), DDiv(One, pow_2(z))))
        fp == Fnc(f, x)
        fm == Fnc(f, DNeg(x))
    IN [x |-> x, j |-> j, fp |-> fp, fm |-> fm,
        values |->
          IF (DEq(fp, Zero) /\ DEq(fm, Zero)) \/ DEq(j, INFINITY)
          THEN <<Zero, Zero, Zero>>
          ELSE << DMul(DAdd(fp, fm), j),
                  DMul(DMul(DSub(fp, fm), j), x),
                  DMul(DMul(DMul(DAdd(fp, fm), j), x), x) >>]

\* ---------------------------------------------------- computeClassicMoments
\* what math::integrateNdim may leave in result[0..2]
IntegralEstimates ==
    { <<Zero, Zero, Zero>>, <<Zero, One, Num(5)>>, <<One, Zero, One>>,
      <<One, One, Zero>>, <<Num(2), Num(2), Num(5)>>, <<Num(-1), Zero, One>>,
      <<Num(2), Num(-1), PInf>>, <<NaN, NaN, NaN>>, <<One, NaN, Zero>> }
integrateNdim(f) == IntegralEstimates

\* (the same without the clamp of the variance at zero)
computeClassicMomentsNoClamp(result) ==
    LET nz == DNe(result[1], Zero)
        m1 == IF nz THEN DDiv(result[2], result[1]) ELSE Zero
        m2 == IF nz
              THEN sqrt(DSub(DDiv(result[3], result[1]), pow_2(m1)))
              ELSE Zero
    IN [moments |-> <<result[1], m1, m2>>, ndiv |-> IF nz THEN 2 ELSE 0]

\* the moments from the integrals in result, and the number of divisions done
computeClassicMoments(result) ==
    LET nz == DNe(result[1], Zero)
        m1 == IF nz THEN DDiv(result[2], result[1]) ELSE Zero
        m2 == IF nz
              THEN sqrt(fmax(Zero, DSub(DDiv(result[3], result[1]), pow_2(m1))))
              ELSE Zero
    IN [moments |-> <<result[1], m1, m2>>, ndiv |-> IF nz THEN 2 ELSE 0]

\* ------------------------------------------------------------ hermiteArray
sqroots == [i \in 0..7 |->
              CASE i = 0 -> One
                [] i = 3 -> Num(2)
                [] OTHER -> sqrt(Num(i + 1))]

\* the loop of hermiteArray from step n on; st holds the array (result[i] is
\* st.result[i+1]), the indices written, the table indices read, the pairs
\* (sqrt(n), sqrt(n+1)) used at each step, and the running sqrtn
RECURSIVE hermiteLoop(_, _, _, _)
hermiteLoop(n, nmax, x, st) ==
    IF ~(n < nmax) THEN st
    ELSE LET sqrtnplus1 == IF n < 8 THEN sqroots[n] ELSE sqrt(Num(n + 1))
             next == DDiv(DSub(DMul(DMul(M_SQRT2, x), st.result[n + 1]),
                               DMul(st.sqrtn, st.result[n])),
                          sqrtnplus1)
         IN hermiteLoop(n + 1, nmax, x,
              [result |-> [st.result EXCEPT ![n + 2] = next],
               written |-> st.written \cup {n + 1},
               reads |-> IF n < 8 THEN st.reads \cup {n} ELSE st.reads,
               roots |-> Append(st.roots, <<st.sqrtn, sqrtnplus1>>),
               sqrtn |-> sqrtnplus1])

hermiteArrayRun(nmax, x, result) ==
    IF nmax < 1
    THEN [result |-> result, written |-> {}, reads |-> {}, roots |-> <<>>,
          sqrtn |-> One]
    ELSE LET r0 == [result EXCEPT ![1] = One]
             r1 == IF nmax >= 1 THEN [r0 EXCEPT ![2] = DMul(M_SQRT2, x)] ELSE r0
         IN hermiteLoop(1, nmax, x,
              [result |-> r1,
               written |-> IF nmax >= 1 THEN {0, 1} ELSE {0},
               reads |-> {}, roots |-> <<>>, sqrtn |-> One])

hermiteArray(nmax, x, result) == hermiteArrayRun(nmax, x, result).result

\* ---------------------------------------------- computeGaussHermiteMoments
\* (the same with the parity test inverted)
RECURSIVE ghmAccumulateParitySwapped(_, _, _, _, _, _, _)
ghmAccumulateParitySwapped(i, order, result, mult, fp, fm, hpoly) ==
    IF ~(i <= order) THEN <<>>
    ELSE << DAdd(result[i + 1],
                 DMul(DMul(mult,
                           DAdd(fp, DMul(IF i % 2 = 0 THEN Num(-1) ELSE Num(1), fm))),
                      hpoly[i + 1])) >>
         \o ghmAccumulateParitySwapped(i + 1, order, result, mult, fp, fm, hpoly)

\* (the same with the two samples added for every index)
RECURSIVE ghmAccumulateAlwaysSum(_, _, _, _, _, _, _)
ghmAccumulateAlwaysSum(i, order, result, mult, fp, fm, hpoly) ==
    IF ~(i <= order) THEN <<>>
    ELSE << DAdd(result[i + 1],
                 DMul(DMul(mult, DAdd(fp, DMul(Num(1), fm))), hpoly[i + 1])) >>
         \o ghmAccumulateAlwaysSum(i + 1, order, result, mult, fp, fm, hpoly)

\* result[i] += mult * (fp + (i%2 ? -1 : 1) * fm) * hpoly[i] for i = i0..order
\* (result[i] is entry i+1 of the sequences)
RECURSIVE ghmAccumulate(_, _, _, _, _, _, _)
ghmAccumulate(i, order, result, mult, fp, fm, hpoly) ==
    IF ~(i <= order) THEN <<>>
    ELSE << DAdd(result[i + 1],
                 DMul(DMul(mult,
                           DAdd(fp, DMul(IF i % 2 = 1 THEN Num(-1) ELSE Num(1), fm))),
                      hpoly[i + 1])) >>
         \o ghmAccumulate(i + 1, order, result, mult, fp, fm, hpoly)

\* (the same with the centre node sampled on both sides)
ghmNodeCentreTwice(p, f, order, ampl, center, width, st) ==
    LET y == DMul(Num(p), DDiv(One, Num(QUADORDER)))
        mult == DMul(DDiv(DDiv(DMul(M_SQRT2, width), ampl), Num(QUADORDER)),
                     exp(DMul(DMul(Fin(-(SCALE \div 2)), y), y)))
        xp == DAdd(center, DMul(width, y))
        xm == DSub(center, DMul(width, y))
        fp == Fnc(f, xp)
        fm == Fnc(f, xm)
        hpoly == hermiteArray(order, y, st.hpoly)
    IN [hpoly |-> hpoly,
        result |-> ghmAccumulate(0, order, st.result, mult, fp, fm, hpoly),
        nfev |-> st.nfev + 2,
        samples |-> st.samples \o <<xp, xm>>]

\* the body of the loop over the quadrature nodes, at node p; st holds hpoly,
\* result, the number of evaluations of fnc so far and their arguments
ghmNode(p, f, order, ampl, center, width, st) ==
    LET y == DMul(Num(p), DDiv(One, Num(QUADORDER)))
        mult == DMul(DDiv(DDiv(DMul(M_SQRT2, width), ampl), Num(QUADORDER)),
                     exp(DMul(DMul(Fin(-(SCALE \div 2)), y), y)))
        xp == DAdd(center, DMul(width, y))
        xm == DSub(center, DMul(width, y))
        fp == Fnc(f, xp)
        fm == IF p = 0 THEN Zero ELSE Fnc(f, xm)
        hpoly == hermiteArray(order, y, st.hpoly)
    IN [hpoly |-> hpoly,
        result |-> ghmAccumulate(0, order, st.result, mult, fp, fm, hpoly),
        nfev |-> st.nfev + (IF p = 0 THEN 1 ELSE 2),
        samples |-> st.samples \o (IF p = 0 THEN <<xp>> ELSE <<xp, xm>>)]

computeGaussHermiteMomentsRun(f, order, ampl, center, width) ==
    LET RECURSIVE loop(_, _)
        loop(p, st) ==
            IF st.nfev >= 0 /\ ~(p <= QUADORDER * QUADORDER) THEN st
            ELSE loop(p + 1, ghmNode(p, f, order, ampl, center, width, st))
    IN loop(0, [hpoly |-> Filled(order + 1, Zero),
                result |-> Filled(order + 1, Zero), nfev |-> 0,
                samples |-> <<>>])

computeGaussHermiteMoments(f, order, ampl, center, width) ==
    computeGaussHermiteMomentsRun(f, order, ampl, center, width).result

\* ------------------------------------------------------ GaussHermiteFitter
\* the residual model handed to the solver: its order and its function
GaussHermiteFitter(order, f) == [order |-> order, fnc |-> f]
GaussHermiteFitter_numVars(fitter) == fitter.order + 1
GaussHermiteFitter_numValues(fitter) == (2 * QUADORDER * QUADORDER) + 1

\* what math::nonlinearMultiFit may leave in its output for a model of n
\* parameters: a converged fit or its last iterate, whatever that is
nonlinearMultiFit(fitter, init) ==
    IF GaussHermiteFitter_numVars(fitter) = 3
    THEN { <<One, Zero, One>>, <<Num(2), One, Zero>>, <<One, Zero, Num(-1)>>,
           <<One, One, PInf>>, <<NaN, NaN, NaN>> }
    ELSE { Filled(GaussHermiteFitter_numVars(fitter), One) }

\* ---------------------------------------------------- GaussHermiteExpansion
\* value(x) on an object with the given members; stale is what the buffer
\* obtained from alloca holds before hermiteArray fills it
GaussHermiteExpansion_value(obj, x, stale) ==
    LET ncoefs == Len(obj.moments)
    IN IF ncoefs = 0 THEN [branch |-> "empty", result |-> Zero]
       ELSE LET xscaled == DDiv(DSub(x, obj.Center), obj.Width)
                norm == DMul(DDiv(DMul(DDiv(DDiv(One, M_SQRT2), M_SQRTPI), obj.Ampl),
                                  obj.Width),
                             exp(DMul(Fin(-(SCALE \div 2)), pow_2(xscaled))))
                hpoly == hermiteArray(ncoefs - 1, xscaled, Filled(ncoefs, stale))
                Sum[i \in 0..ncoefs] ==
                    IF i = 0 THEN Zero
                    ELSE DAdd(Sum[i - 1], DMul(obj.moments[i], hpoly[i]))
            IN [branch |-> "sum", result |-> DMul(Sum[ncoefs], norm)]

\* math::factorial(n) and math::dfactorial(n): n! and n!! as doubles
RECURSIVE factorial(_)
factorial(n) == IF n <= 1 THEN One ELSE DMul(Num(n), factorial(n - 1))
RECURSIVE dfactorial(_)
dfactorial(n) == IF n <= 1 THEN One ELSE DMul(Num(n), dfactorial(n - 2))

\* (the same without the test of the parity of n)
normnNoParityTest(n) ==
    CASE n = 0 -> One
      [] n = 2 -> DDiv(One, M_SQRT2)
      [] n = 4 -> Fin((6123 * SCALE) \div 10000)
      [] n = 6 -> Fin((5590 * SCALE) \div 10000)
      [] n = 8 -> Fin((5229 * SCALE) \div 10000)
      [] OTHER -> DDiv(sqrt(factorial(n)), dfactorial(n))

\* normn(n); the literals 0.6123724356957945, 0.5590169943749474 and
\* 0.5229125165837972 are cut to the steps of the fixed-point doubles
normn(n) ==
    IF n % 2 = 1 THEN Zero
    ELSE CASE n = 0 -> One
           [] n = 2 -> DDiv(One, M_SQRT2)
           [] n = 4 -> Fin((6123 * SCALE) \div 10000)
           [] n = 6 -> Fin((5590 * SCALE) \div 10000)
           [] n = 8 -> Fin((5229 * SCALE) \div 10000)
           [] OTHER -> DDiv(sqrt(factorial(n)), dfactorial(n))

\* norm() on an object with the given members
GaussHermiteExpansion_norm(o) ==
    LET RECURSIVE loop(_, _)
        loop(n, result) ==
            IF ~(n < Len(o.moments)) THEN result
            ELSE loop(n + 2, DAdd(result, DMul(o.moments[n + 1], normn(n))))
    IN DMul(loop(0, Zero), o.Ampl)

\* ------------------------------------------- computeGaussHermiteMatrix<N>
Min(a, b) == IF a < b THEN a ELSE b
Max(a, b) == IF a > b THEN a ELSE b
\* the largest number of nodes of the tabulated Gauss-Legendre rules
MAX_GL_TABLE == 20
\* (the same with one node fewer wanted)
NnodesGLOneFewer(N, order) == Min(MAX_GL_TABLE, Max((N + order + 1) \div 2, 3))
\* the number of nodes per segment of the grid
NnodesGLOf(N, order) == Min(MAX_GL_TABLE, Max(((N + order + 1) \div 2) + 1, 3))
\* math::GLPOINTS[n] and math::GLWEIGHTS[n]: the nodes in [0,1] and the
\* weights of the rule of n nodes (entry k of the C arrays is entry k+1)
GLPOINTS ==
    [n \in 3..5 |->
       CASE n = 3 -> <<Dec4(1127), Dec4(5000), Dec4(8873)>>
         [] n = 4 -> <<Dec4(694), Dec4(3300), Dec4(6700), Dec4(9306)>>
         [] n = 5 -> <<Dec4(469), Dec4(2308), Dec4(5000), Dec4(7692), Dec4(9531)>>]
GLWEIGHTS ==
    [n \in 3..5 |->
       CASE n = 3 -> <<Dec4(2778), Dec4(4444), Dec4(2778)>>
         [] n = 4 -> <<Dec4(1739), Dec4(3261), Dec4(3261), Dec4(1739)>>
         [] n = 5 -> <<Dec4(1185), Dec4(2393), Dec4(2844), Dec4(2393), Dec4(1185)>>]

\* (the same with the index of the leftmost function left out)
RECURSIVE ghMatrixAddNoLeftInd(_, _, _, _, _, _, _, _, _)
ghMatrixAddNoLeftInd(e, N, order, numBsplines, leftInd, mult, hpoly, bspl, st) ==
    IF Len(st.dresult) >= 0 /\ e >= (order + 1) * (N + 1) THEN st
    ELSE LET m == e \div (N + 1)
             b == e % (N + 1)
             flat == (m * numBsplines) + b
         IN ghMatrixAddNoLeftInd(e + 1, N, order, numBsplines, leftInd, mult, hpoly,
              bspl,
              [dresult |-> [st.dresult EXCEPT ![flat + 1] =
                              DAdd(@, DMul(DMul(mult, hpoly[m + 1]), bspl[b + 1]))],
               written |-> Append(st.written, flat),
               outside |-> st.outside])

\* (the same with rows of N+1 entries)
RECURSIVE ghMatrixAddRowStride(_, _, _, _, _, _, _, _, _)
ghMatrixAddRowStride(e, N, order, numBsplines, leftInd, mult, hpoly, bspl, st) ==
    IF Len(st.dresult) >= 0 /\ e >= (order + 1) * (N + 1) THEN st
    ELSE LET m == e \div (N + 1)
             b == e % (N + 1)
             flat == (m * (N + 1)) + b + leftInd
         IN ghMatrixAddRowStride(e + 1, N, order, numBsplines, leftInd, mult, hpoly,
              bspl,
              [dresult |-> [st.dresult EXCEPT ![flat + 1] =
                              DAdd(@, DMul(DMul(mult, hpoly[m + 1]), bspl[b + 1]))],
               written |-> Append(st.written, flat),
               outside |-> st.outside])

\* the two inner loops at one quadrature point: dresult[m*numBsplines + b +
\* leftInd] += mult * hpoly[m] * bspl[b] for m = 0..order, b = 0..N, from the
\* pair e = m*(N+1) + b on; st holds dresult (entry i of the C array is entry
\* i+1), the flat indices written and whether one fell outside the storage
RECURSIVE ghMatrixAdd(_, _, _, _, _, _, _, _, _)
ghMatrixAdd(e, N, order, numBsplines, leftInd, mult, hpoly, bspl, st) ==
    IF Len(st.dresult) >= 0 /\ e >= (order + 1) * (N + 1) THEN st
    ELSE LET m == e \div (N + 1)
             b == e % (N + 1)
             flat == (m * numBsplines) + b + leftInd
         IN ghMatrixAdd(e + 1, N, order, numBsplines, leftInd, mult, hpoly, bspl,
              IF flat >= 0 /\ flat < Len(st.dresult)
              THEN [dresult |-> [st.dresult EXCEPT ![flat + 1] =
                                    DAdd(@, DMul(DMul(mult, hpoly[m + 1]), bspl[b + 1]))],
                    written |-> Append(st.written, flat),
                    outside |-> st.outside]
              ELSE [dresult |-> st.dresult,
                    written |-> Append(st.written, flat),
                    outside |-> TRUE])

\* the body of the loop over the nodes k of the segments n, at point n, k; st
\* holds hpoly, dresult and the record of every point done
ghMatrixPoint(n, k, interp, order, ampl, center, width, st) ==
    LET N == interp.degree
        NnodesGL == NnodesGLOf(N, order)
        x1 == interp.xvalues[n + 1]
        x2 == interp.xvalues[n + 2]
        dx == DSub(x2, x1)
        x == DAdd(x1, DMul(dx, GLPOINTS[NnodesGL][k + 1]))
        nz == nonzeroComponents(interp, x)
        y == DDiv(DSub(x, center), width)
        hpoly == hermiteArray(order, y, st.hpoly)
        mult == DMul(DMul(DMul(DDiv(M_SQRT2, ampl), dx), GLWEIGHTS[NnodesGL][k + 1]),
                     exp(DMul(DMul(Fin(-(SCALE \div 2)), y), y)))
        add == ghMatrixAdd(0, N, order, interp.numValues, nz.leftInd, mult, hpoly,
                           nz.bspl,
                           [dresult |-> st.dresult, written |-> <<>>, outside |-> FALSE])
    IN [hpoly |-> hpoly,
        dresult |-> add.dresult,
        points |-> Append(st.points,
                     [n |-> n, k |-> k, x |-> x, y |-> y, mult |-> mult,
                      leftInd |-> nz.leftInd, bspl |-> nz.bspl, hpoly |-> hpoly,
                      before |-> st.dresult, after |-> add.dresult,
                      written |-> add.written, outside |-> add.outside])]

\* computeGaussHermiteMatrix<N>(interp, order, ampl, center, width): the
\* matrix in row-major order, with its shape and the record of the points
computeGaussHermiteMatrixRun(interp, order, ampl, center, width) ==
    LET NnodesGL == NnodesGLOf(interp.degree, order)
        gridSize == Len(interp.xvalues)
        numBsplines == interp.numValues
        RECURSIVE loop(_, _)
        loop(q, st) ==
            IF Len(st.points) >= 0 /\ ~(q \div NnodesGL < gridSize - 1) THEN st
            ELSE loop(q + 1, ghMatrixPoint(q \div NnodesGL, q % NnodesGL, interp,
                                           order, ampl, center, width, st))
        init == Filled((order + 1) * numBsplines, Zero)
        run == loop(0, [hpoly |-> Filled(order + 1, Zero), dresult |-> init,
                        points |-> <<>>])
    IN [rows |-> order + 1, cols |-> numBsplines, NnodesGL |-> NnodesGL,
        initial |-> init, data |-> run.dresult, points |-> run.points]

\* ------------------------------------------- computeGaussHermiteMatrix(N,..)
\* (the same with the case of degree 3 left out)
computeGaussHermiteMatrixDispatchNoCubic(N, grid) ==
    CASE N = 0 -> [thrown |-> "", interp |-> BsplineInterpolator1d(0, grid)]
      [] N = 1 -> [thrown |-> "", interp |-> BsplineInterpolator1d(1, grid)]
      [] N = 2 -> [thrown |-> "", interp |-> BsplineInterpolator1d(2, grid)]
      [] OTHER -> [thrown |-> "invalid_argument", interp |-> <<>>]
\* the entry point: dispatch on the runtime degree N
computeGaussHermiteMatrixDispatch(N, grid) ==
    CASE N = 0 -> [thrown |-> "", interp |-> BsplineInterpolator1d(0, grid)]
      [] N = 1 -> [thrown |-> "", interp |-> BsplineInterpolator1d(1, grid)]
      [] N = 2 -> [thrown |-> "", interp |-> BsplineInterpolator1d(2, grid)]
      [] N = 3 -> [thrown |-> "", interp |-> BsplineInterpolator1d(3, grid)]
      [] OTHER -> [thrown |-> "invalid_argument", interp |-> <<>>]

\* ------------------------------------------------------------------- state
VARIABLES
    pc,        \* where the constructor stands
    args,      \* the constructor's arguments
    obj,       \* the members Ampl, Center, Width, moments of the object
    params,    \* the constructor's local vector params
    fit,       \* how the solver was called: its start vector and its model
    log,       \* the components called so far, in order
    nfev,      \* evaluations of fnc made by the direct integrator
    call       \* the last call of a free function or of a query

vars == <<pc, args, obj, params, fit, log, nfev, call>>

NoCall == [op |-> "none"]
NoFit == [init |-> <<>>, numVars |-> 0, budget |-> 0, output |-> <<>>]

\* arguments tried: NaN is the default of an envelope argument left out, and
\* Big is a finite value above half the largest finite double
Orders == 0..MaxOrder
Big == Fin((MAXD \div 5) * 3)
EnvelopeArgs ==
    { <<NaN, NaN, NaN>>, <<One, NaN, One>>, <<Big, Big, One>>,
      <<One, Zero, One>>, <<Num(2), One, Num(2)>>, <<One, Zero, Zero>>,
      <<One, Zero, Num(-1)>>, <<Big, Zero, One>> }
XPoints == {Zero, One, Num(-1), Fin(SCALE \div 2)}
StaleValues == {Zero, Num(7)}
ZPoints == { DDiv(Num(k), Num(ZSteps)) : k \in 0..ZSteps }

Init ==
    /\ pc = "Uninitialized"
    /\ args = [fnc |-> "zero", order |-> 0, ampl |-> NaN, center |-> NaN, width |-> NaN]
    /\ obj = [Ampl |-> NaN, Center |-> NaN, Width |-> NaN, moments |-> <<>>]
    /\ params = <<>>
    /\ fit = NoFit
    /\ log = <<>>
    /\ nfev = 0
    /\ call = NoCall

\* the check of the order and the choice of the path: where the constructor
\* stands after them
CtorPathOrderBelowOne(order, ampl, center, width) ==
    IF order < 1 THEN "Thrown"
    ELSE IF ~isFinite(DAdd(DAdd(ampl, center), width)) THEN "Fitting"
    ELSE "Integrating"
CtorPath(order, ampl, center, width) ==
    IF order < 2 THEN "Thrown"
    ELSE IF ~isFinite(DAdd(DAdd(ampl, center), width)) THEN "Fitting"
    ELSE "Integrating"

\* GaussHermiteExpansion(fnc, order, ampl, center, width): the member
\* initialisers, the check of the order and the choice of the path
CtorEnter(f, order, ampl, center, width) ==
    /\ pc = "Uninitialized" /\ call = NoCall
    /\ args' = [fnc |-> f, order |-> order, ampl |-> ampl, center |-> center,
                width |-> width]
    /\ obj' = [obj EXCEPT !.Ampl = ampl, !.Center = center, !.Width = width]
    /\ pc' = CtorPath(order, ampl, center, width)
    /\ UNCHANGED <<params, fit, log, nfev, call>>

\* params = computeClassicMoments(fnc)
CtorMoments ==
    /\ pc = "Fitting"
    /\ \E result \in integrateNdim(args.fnc) :
          params' = computeClassicMoments(result).moments
    /\ log' = Append(log, "computeClassicMoments")
    /\ pc' = "Solving"
    /\ UNCHANGED <<args, obj, fit, nfev, call>>

\* the order of the model fitted: 2 fits the envelope alone
fitorderAsOrder == args.order
fitorder == 2

\* the solver's budget of evaluations of the model
maxNumFuncEval == 100

\* params.resize(fitorder+1); nonlinearMultiFit(GaussHermiteFitter(fitorder,
\* fnc), &params[0], 1e-6, 100, &params[0])
CtorFit ==
    /\ pc = "Solving"
    /\ LET init == SubSeq(params \o Filled(fitorder + 1 - Len(params), Zero),
                          1, fitorder + 1)
           fitter == GaussHermiteFitter(fitorder, args.fnc)
       IN \E output \in nonlinearMultiFit(fitter, init) :
             /\ fit' = [init |-> init, numVars |-> GaussHermiteFitter_numVars(fitter),
                        budget |-> maxNumFuncEval, output |-> output]
             /\ params' = output
    /\ log' = Append(log, "nonlinearMultiFit")
    /\ pc' = "Fitted"
    /\ UNCHANGED <<args, obj, nfev, call>>

\* (the same with Width taken from params[1])
CtorStoreWrongIndex ==
    /\ pc = "Fitted"
    /\ obj' = [obj EXCEPT !.Ampl = params[1], !.Center = params[2],
                          !.Width = params[2]]
    /\ params' = <<>>
    /\ fit' = NoFit
    /\ pc' = "Integrating"
    /\ UNCHANGED <<args, log, nfev, call>>

\* (the same with an error raised when the solver's output is not finite)
CtorStoreChecked ==
    /\ pc = "Fitted"
    /\ obj' = [obj EXCEPT !.Ampl = params[1], !.Center = params[2],
                          !.Width = params[3]]
    /\ params' = <<>>
    /\ fit' = NoFit
    /\ pc' = IF isFinite(params[1]) /\ isFinite(params[2]) /\ isFinite(params[3])
             THEN "Integrating" ELSE "Thrown"
    /\ UNCHANGED <<args, log, nfev, call>>

\* Ampl = params[0]; Center = params[1]; Width = params[2]; and the end of
\* the block, where params and the fitter cease to exist
CtorStore ==
    /\ pc = "Fitted"
    /\ obj' = [obj EXCEPT !.Ampl = params[1], !.Center = params[2],
                          !.Width = params[3]]
    /\ params' = <<>>
    /\ fit' = NoFit
    /\ pc' = "Integrating"
    /\ UNCHANGED <<args, log, nfev, call>>

\* (the same with the order of the fit in place of the order asked for)
CtorIntegrateFitOrder ==
    /\ pc = "Integrating"
    /\ LET run == computeGaussHermiteMomentsRun(args.fnc, fitorder, obj.Ampl,
                                                obj.Center, obj.Width)
       IN /\ obj' = [obj EXCEPT !.moments = run.result]
          /\ nfev' = nfev + run.nfev
    /\ log' = Append(log, "computeGaussHermiteMoments")
    /\ pc' = "Integrated"
    /\ UNCHANGED <<args, params, fit, call>>

\* moments = computeGaussHermiteMoments(fnc, order, Ampl, Center, Width)
CtorIntegrate ==
    /\ pc = "Integrating"
    /\ LET run == computeGaussHermiteMomentsRun(args.fnc, args.order, obj.Ampl,
                                                obj.Center, obj.Width)
       IN /\ obj' = [obj EXCEPT !.moments = run.result]
          /\ nfev' = nfev + run.nfev
    /\ log' = Append(log, "computeGaussHermiteMoments")
    /\ pc' = "Integrated"
    /\ UNCHANGED <<args, params, fit, call>>

\* value(x) on the constructed object
Value(x, stale) ==
    /\ pc = "Integrated" /\ call = NoCall
    /\ call' = [op |-> "value", x |-> x,
                out |-> GaussHermiteExpansion_value(obj, x, stale)]
    /\ UNCHANGED <<pc, args, obj, params, fit, log, nfev>>

\* values put in place of a coefficient
ChangedValues == {Num(7), NaN}

\* norm() on the constructed object, and on the same object with the
\* coefficient of the odd index i replaced by d
Norm(i, d) ==
    /\ pc = "Integrated" /\ call = NoCall
    /\ i % 2 = 1 /\ i < Len(obj.moments)
    /\ call' = [op |-> "norm", index |-> i, changed |-> d,
                out |-> GaussHermiteExpansion_norm(obj),
                outChanged |-> GaussHermiteExpansion_norm(
                                  [obj EXCEPT !.moments[i + 1] = d])]
    /\ UNCHANGED <<pc, args, obj, params, fit, log, nfev>>

\* a call normn(n)
NormnCall(n) ==
    /\ pc = "Uninitialized" /\ call = NoCall
    /\ call' = [op |-> "normn", n |-> n, out |-> normn(n)]
    /\ UNCHANGED <<pc, args, obj, params, fit, log, nfev>>

\* the envelopes handed to the direct integrator
DirectEnvelopes == { <<One, Zero, One>>, <<Num(2), One, Num(2)>>,
                     <<Zero, Zero, One>> }

\* a call computeGaussHermiteMoments(fnc, order, ampl, center, width)
DirectCall(f, order, ampl, center, width) ==
    /\ pc = "Uninitialized" /\ call = NoCall
    /\ call' = [op |-> "computeGaussHermiteMoments", fnc |-> f, order |-> order,
                ampl |-> ampl, center |-> center, width |-> width,
                out |-> computeGaussHermiteMomentsRun(f, order, ampl, center, width)]
    /\ UNCHANGED <<pc, args, obj, params, fit, log, nfev>>

\* the choice of the Gauss-Legendre rule by the matrix builder for a basis
\* of degree N and the given order
MatrixRuleCall(N, order) ==
    /\ pc = "Uninitialized" /\ call = NoCall
    /\ call' = [op |-> "NnodesGL", N |-> N, order |-> order,
                out |-> NnodesGLOf(N, order)]
    /\ UNCHANGED <<pc, args, obj, params, fit, log, nfev>>

\* a call hermiteArray(nmax, x, result) on a buffer holding stale values
HermiteArrayCall(nmax, x, stale) ==
    /\ pc = "Uninitialized" /\ call = NoCall
    /\ call' = [op |-> "hermiteArray", nmax |-> nmax, x |-> x,
                before |-> Filled(MaxNmax + 2, stale),
                out |-> hermiteArrayRun(nmax, x, Filled(MaxNmax + 2, stale))]
    /\ UNCHANGED <<pc, args, obj, params, fit, log, nfev>>

\* a call MomentsIntegrand(fnc).eval(&z, values)
MomentsIntegrandCall(f, z) ==
    /\ pc = "Uninitialized" /\ call = NoCall
    /\ call' = [op |-> "MomentsIntegrand", fnc |-> f, z |-> z,
                out |-> MomentsIntegrand_eval(f, z)]
    /\ UNCHANGED <<pc, args, obj, params, fit, log, nfev>>

\* a call computeClassicMoments(fnc)
ClassicMomentsCall(f) ==
    /\ pc = "Uninitialized" /\ call = NoCall
    /\ \E result \in integrateNdim(f) :
          call' = [op |-> "computeClassicMoments", fnc |-> f, result |-> result,
                   out |-> computeClassicMoments(result)]
    /\ UNCHANGED <<pc, args, obj, params, fit, log, nfev>>

\* the envelopes handed to the matrix builder
MatrixEnvelopes == { <<One, Zero, One>>, <<Num(2), One, Num(2)>> }
NoMatrix == [rows |-> 0, cols |-> 0, NnodesGL |-> 0, initial |-> <<>>,
             data |-> <<>>, points |-> <<>>]

\* a call computeGaussHermiteMatrix(N, grid, order, ampl, center, width)
MatrixCall(N, grid, order, ampl, center, width) ==
    /\ pc = "Uninitialized" /\ call = NoCall
    /\ LET out == computeGaussHermiteMatrixDispatch(N, grid)
       IN call' = [op |-> "computeGaussHermiteMatrix", N |-> N, grid |-> grid,
                   order |-> order, ampl |-> ampl, center |-> center,
                   width |-> width, out |-> out,
                   matrix |-> IF out.thrown = ""
                              THEN computeGaussHermiteMatrixRun(out.interp, order,
                                                                ampl, center, width)
                              ELSE NoMatrix]
    /\ UNCHANGED <<pc, args, obj, params, fit, log, nfev>>

Next ==
    \/ \E f \in Fncs, order \in Orders, env \in EnvelopeArgs :
          CtorEnter(f, order, env[1], env[2], env[3])
    \/ CtorMoments
    \/ CtorFit
    \/ CtorStore
    \/ CtorIntegrate
    \/ \E x \in XPoints, stale \in StaleValues : Value(x, stale)
    \/ \E f \in Fncs, order \in Orders, env \in DirectEnvelopes :
          DirectCall(f, order, env[1], env[2], env[3])
    \/ \E N \in 0..3, order \in 0..MaxRuleOrder : MatrixRuleCall(N, order)
    \/ \E i \in 0..MaxOrder, d \in ChangedValues : Norm(i, d)
    \/ \E n \in 0..MaxNormn : NormnCall(n)
    \/ \E nmax \in 0..MaxNmax, x \in XPoints, stale \in StaleValues :
          HermiteArrayCall(nmax, x, stale)
    \/ \E f \in Fncs, z \in ZPoints : MomentsIntegrandCall(f, z)
    \/ \E f \in Fncs : ClassicMomentsCall(f)
    \/ \E N \in -1..MaxDegree, grid \in Grids, order \in Orders,
          env \in MatrixEnvelopes :
          MatrixCall(N, grid, order, env[1], env[2], env[3])

Spec == Init /\ [][Next]_vars

\* a step of the constructor past the choice of the path: CtorMoments,
\* CtorFit, CtorStore and CtorIntegrate are the steps that move pc on
CtorAdvance ==
    /\ pc \in {"Fitting", "Solving", "Fitted", "Integrating"}
    /\ pc' \in {"Solving", "Fitted", "Integrating", "Integrated"}
    /\ pc' # pc
\* the constructor is straight-line code: once entered, each of its steps is
\* taken (the solver returning within its budget)
FairSpec == Spec /\ WF_pc(CtorAdvance)

\* ------------------------------------------------------------ properties
AllFinite(ampl, center, width) == isFinite(ampl) /\ isFinite(center) /\ isFinite(width)
Constructing == pc # "Uninitialized"
FitLog == <<"computeClassicMoments", "nonlinearMultiFit", "computeGaussHermiteMoments">>
IsPrefix(s, t) == Len(s) <= Len(t) /\ s = SubSeq(t, 1, Len(s))

\* C1: a construction with order < 2 ends in the invalid-argument error at
\* once: no component is called, fnc is never evaluated and no coefficient
\* is stored, whatever the envelope arguments are; and nothing else throws.
C1_OrderBelowTwoThrows ==
    /\ (Constructing /\ args.order < 2) =>
          /\ pc = "Thrown"
          /\ log = <<>> /\ nfev = 0
          /\ obj.moments = <<>> /\ params = <<>> /\ fit = NoFit
    /\ pc = "Thrown" => args.order < 2
C1_Witness ==
    /\ pc = "Thrown" /\ args.order = 1
    /\ AllFinite(args.ampl, args.center, args.width)

\* C2: the entry point hands a basis of degree N to the matrix builder for
\* N in 0..3, and for every other N throws invalid_argument with no basis
\* built.
C2_DegreeDispatch ==
    call.op = "computeGaussHermiteMatrix" =>
        IF call.N \in 0..3
        THEN call.out.thrown = "" /\ call.out.interp.degree = call.N
        ELSE call.out.thrown = "invalid_argument" /\ call.out.interp = <<>>
C2_Witness ==
    /\ call.op = "computeGaussHermiteMatrix" /\ call.N = 3
    /\ call.out.thrown = "" /\ call.out.interp.degree = 3

\* C3 (as claimed): with order >= 2 and amplitude, center and width each
\* finite, the constructor never fits: it goes straight to the integration,
\* no moment estimator or solver is called, and the envelope stored is the
\* one passed in.
C3_FiniteEnvelopeSkipsFitting ==
    (Constructing /\ args.order >= 2
       /\ AllFinite(args.ampl, args.center, args.width)) =>
          /\ pc \in {"Integrating", "Integrated"}
          /\ IsPrefix(log, <<"computeGaussHermiteMoments">>)
          /\ obj.Ampl = args.ampl /\ obj.Center = args.center
          /\ obj.Width = args.width

\* the paths of a construction that got past the check of the order
FitPath ==
    /\ Constructing /\ args.order >= 2
    /\ ~isFinite(DAdd(DAdd(args.ampl, args.center), args.width))
ExplicitPath ==
    /\ Constructing /\ args.order >= 2
    /\ isFinite(DAdd(DAdd(args.ampl, args.center), args.width))

\* C4: on the fitting path the moment estimator, the solver and the direct
\* integrator are called once each and in that order; the solver starts from
\* the estimator's triple and has three parameters for every order; the
\* envelope is overwritten by the solver's output; and the integrator then
\* computes order+1 coefficients from the envelope stored.
C4_FittingPathOrder ==
    /\ [](FitPath =>
            /\ pc = "Fitting" => log = <<>>
            /\ pc = "Solving" => log = SubSeq(FitLog, 1, 1) /\ Len(params) = 3
            /\ pc \in {"Fitted", "Integrating"} => log = SubSeq(FitLog, 1, 2)
            /\ pc = "Fitted" => fit.numVars = 3 /\ Len(fit.init) = 3
                                /\ params = fit.output
            /\ pc = "Integrated" => log = FitLog
            /\ pc # "Thrown")
    /\ [][(FitPath /\ pc = "Solving") => fit'.init = params]_vars
    /\ [][(FitPath /\ pc = "Fitted") =>
             /\ obj'.Ampl = fit.output[1] /\ obj'.Center = fit.output[2]
             /\ obj'.Width = fit.output[3]]_vars
    /\ [][(FitPath /\ pc = "Integrating") =>
             /\ Len(obj'.moments) = args.order + 1
             /\ obj'.moments = computeGaussHermiteMoments(args.fnc, args.order,
                                   obj.Ampl, obj.Center, obj.Width)
             /\ obj'.Ampl = obj.Ampl /\ obj'.Center = obj.Center
             /\ obj'.Width = obj.Width]_vars
C4_Witness ==
    /\ FitPath /\ pc = "Integrated" /\ log = FitLog /\ args.order = 3
    /\ AllFinite(args.ampl, args.center, args.width)
    /\ obj.Ampl # args.ampl

\* the sum the direct integrator forms for coefficient 0, where H_0 = 1:
\* the terms mult * (f(center + width*y) + f(center - width*y)) over the nodes
EvenSum(f, ampl, center, width) ==
    LET RECURSIVE sum(_, _)
        sum(p, acc) ==
            IF isNaN(acc) \/ p > QUADORDER * QUADORDER THEN acc
            ELSE LET y == DMul(Num(p), DDiv(One, Num(QUADORDER)))
                     mult == DMul(DDiv(DDiv(DMul(M_SQRT2, width), ampl),
                                       Num(QUADORDER)),
                                  exp(DMul(DMul(Fin(-(SCALE \div 2)), y), y)))
                     fp == Fnc(f, DAdd(center, DMul(width, y)))
                     fm == IF p = 0 THEN Zero
                           ELSE Fnc(f, DSub(center, DMul(width, y)))
                 IN sum(p + 1, DAdd(acc, DMul(mult, DAdd(fp, fm))))
    IN sum(0, Zero)

C6_WidthPositive ==
    pc = "Integrated" => DLt(Zero, obj.Width)

\* C6 (amended): the constructor does not check the width: the width of a
\* constructed expansion is the width argument on the explicit path and the
\* width the solver returned on the fitting path, whatever its sign, and the
\* only construction that throws is one with order < 2.
C6_WidthIsStoredUnchecked ==
    /\ [](ExplicitPath => pc \in {"Integrating", "Integrated"}
                          /\ obj.Width = args.width)
    /\ [](pc = "Thrown" => args.order < 2)
    /\ [][(FitPath /\ pc = "Fitted") =>
             pc' \in {"Fitted", "Integrating"} /\ obj'.Width = fit.output[3]]_vars
    /\ [][pc = "Integrating" =>
             pc' \in {"Integrating", "Integrated"} /\ obj'.Width = obj.Width]_vars
C6_Witness ==
    /\ pc = "Integrated" /\ FitPath /\ ~DLt(Zero, obj.Width)
    /\ obj.Width # args.width

\* C7: a constructed expansion holds order+1 coefficients, with order >= 2,
\* on both paths, and value() on it never returns through its branch for an
\* empty coefficient vector.
C7_CoefficientCount ==
    /\ pc = "Integrated" =>
          /\ args.order >= 2
          /\ Len(obj.moments) = args.order + 1
          /\ Len(obj.moments) >= 3
    /\ call.op = "value" => call.out.branch = "sum"
C7_Witness ==
    /\ pc = "Integrated" /\ FitPath /\ args.order = 3 /\ Len(obj.moments) = 4
    /\ call.op = "value" /\ call.out.branch = "sum"

\* C8 (as claimed): hermiteArray(nmax, x, result) writes result[0] = 1 for
\* every nmax >= 0, result[1] = sqrt(2)*x for nmax >= 1 and the recurrence
\* above that; it writes no index above nmax and not result[1] for nmax = 0;
\* the table of square roots is read at indices 1..7 only, and sqrt(n+1) of
\* one step is sqrt(n) of the next.
C8_HermiteArrayContract ==
    call.op = "hermiteArray" =>
        LET r == call.out.result
            n0 == call.nmax
        IN /\ r[1] = One
           /\ n0 >= 1 => r[2] = DMul(M_SQRT2, call.x)
           /\ \A n \in 1..(n0 - 1) :
                 r[n + 2] = DDiv(DSub(DMul(DMul(M_SQRT2, call.x), r[n + 1]),
                                      DMul(sqrt(Num(n)), r[n])),
                                 sqrt(Num(n + 1)))
           /\ call.out.written \subseteq 0..n0
           /\ \A i \in (n0 + 2)..Len(r) : r[i] = call.before[i]
           /\ n0 = 0 => 1 \notin call.out.written
           /\ call.out.reads \subseteq 1..7
           /\ \A n \in 1..(Len(call.out.roots) - 1) :
                 call.out.roots[n][2] = call.out.roots[n + 1][1]

\* C9: computeClassicMoments returns three entries; with a normalization of
\* exactly zero the mean and the standard deviation are zero and nothing is
\* divided; otherwise the standard deviation is the square root of the
\* variance estimate clamped at zero, so finite integrals never give NaN.
C9_ClassicMoments ==
    call.op = "computeClassicMoments" =>
        LET r == call.result
            m == call.out.moments
        IN /\ Len(m) = 3
           /\ m[1] = r[1]
           /\ DEq(r[1], Zero) => m[2] = Zero /\ m[3] = Zero /\ call.out.ndiv = 0
           /\ DNe(r[1], Zero) =>
                 /\ m[2] = DDiv(r[2], r[1])
                 /\ m[3] = sqrt(fmax(Zero, DSub(DDiv(r[3], r[1]), pow_2(m[2]))))
                 /\ ~isNaN(m[3])
                 /\ DLt(DDiv(r[3], r[1]), pow_2(m[2])) => m[3] = Zero
C9_Witness ==
    /\ call.op = "computeClassicMoments"
    /\ call.result = <<One, One, Zero>>
    /\ call.out.moments = <<One, One, Zero>>

\* C10 (as claimed): for z in [0,1] and a function of finite values the
\* integrand returns three finite values, and all three are zero whenever
\* f(x) = f(-x) = 0 or the Jacobian is not finite.
C10_IntegrandFinite ==
    call.op = "MomentsIntegrand" =>
        LET v == call.out.values
        IN /\ \A i \in 1..3 : isFinite(v[i])
           /\ ((DEq(call.out.fp, Zero) /\ DEq(call.out.fm, Zero))
                 \/ ~isFinite(call.out.j)) => v = <<Zero, Zero, Zero>>

\* two doubles that are equal or differ by at most tol steps
Close(a, b, tol) ==
    a = b \/ (isFinite(a) /\ isFinite(b) /\ Abs(a.v - b.v) <= tol)
\* the sum of moments[n] * sqrt(n!)/n!! over the even indices n
EvenNormSum(moments) ==
    LET S[k \in 0..Len(moments)] ==
            IF k = 0 THEN Zero
            ELSE IF k % 2 = 0 THEN S[k - 1]
            ELSE DAdd(S[k - 1], DMul(moments[k], normn(k - 1)))
    IN S[Len(moments)]
\* the squares of the tabulated values of normn
NormnSquares == [n \in {0, 2, 4, 6, 8} |->
                   CASE n = 0 -> One
                     [] n = 2 -> DDiv(Num(1), Num(2))
                     [] n = 4 -> DDiv(Num(6), Num(16))
                     [] n = 6 -> DDiv(Num(5), Num(16))
                     [] n = 8 -> DDiv(Num(70), Num(256))]

\* C11: norm() is the amplitude times the sum over the even indices n of
\* coefficients[n]*normn(n), so that replacing an odd coefficient leaves it
\* unchanged; normn(n) is exactly 0 for odd n and sqrt(n!)/n!! for even n, the
\* tabulated values for n = 0, 2, 4, 6, 8 agreeing with that formula and
\* having the squares 1, 1/2, 6/16, 5/16, 70/256 (to the last step kept).
C11_NormOverEvenIndices ==
    /\ call.op = "norm" =>
          /\ call.out = DMul(EvenNormSum(obj.moments), obj.Ampl)
          /\ call.outChanged = call.out
    /\ call.op = "normn" =>
          /\ call.n % 2 = 1 => call.out = Zero
          /\ call.n % 2 = 0 =>
                Close(call.out, DDiv(sqrt(factorial(call.n)), dfactorial(call.n)), 1)
          /\ (call.n % 2 = 0 /\ call.n > 8) =>
                call.out = DDiv(sqrt(factorial(call.n)), dfactorial(call.n))
          /\ call.n \in DOMAIN NormnSquares =>
                Close(pow_2(call.out), NormnSquares[call.n], 2)
C11_Witness ==
    /\ call.op = "norm" /\ call.changed = Num(7)
    /\ isFinite(obj.moments[call.index + 1])
    /\ obj.moments[call.index + 1] # Zero
    /\ obj.moments[call.index + 1] # call.changed
    /\ isFinite(call.out) /\ call.out # Zero

\* a call of the matrix builder that returned a matrix
MatrixBuilt == call.op = "computeGaussHermiteMatrix" /\ call.out.thrown = ""
\* entry (m, j) of the matrix returned, rows and columns counted from 0
MatrixEntry(m, j) == call.matrix.data[(m * call.matrix.cols) + j + 1]
\* the Gauss-Legendre sum for row m and the single basis function j: over the
\* nodes of every segment, the terms mult * hpoly[m] * B_j(x)
GLSum(interp, order, ampl, center, width, m, j) ==
    LET nodes == NnodesGLOf(interp.degree, order)
        npoints == (Len(interp.xvalues) - 1) * nodes
        S[q \in 0..npoints] ==
            IF q = 0 THEN [hpoly |-> Filled(order + 1, Zero), sum |-> Zero]
            ELSE LET n == (q - 1) \div nodes
                     k == (q - 1) % nodes
                     x1 == interp.xvalues[n + 1]
                     dx == DSub(interp.xvalues[n + 2], x1)
                     x == DAdd(x1, DMul(dx, GLPOINTS[nodes][k + 1]))
                     y == DDiv(DSub(x, center), width)
                     hpoly == hermiteArray(order, y, S[q - 1].hpoly)
                     mult == DMul(DMul(DMul(DDiv(M_SQRT2, ampl), dx),
                                       GLWEIGHTS[nodes][k + 1]),
                                  exp(DMul(DMul(Fin(-(SCALE \div 2)), y), y)))
                 IN [hpoly |-> hpoly,
                     sum |-> DAdd(S[q - 1].sum,
                                  DMul(DMul(mult, hpoly[m + 1]),
                                       BsplineFunction(interp, j, x)))]
    IN S[npoints].sum
\* what the direct integrator returns for the basis function j alone
DirectOfBasis(j) ==
    computeGaussHermiteMoments(BasisFncName([interp |-> call.out.interp, j |-> j]),
                               call.order, call.ampl, call.center, call.width)
\* the basis functions that vanish at both ends of the grid
InnerColumns == 1..(call.matrix.cols - 2)

\* C12 (as claimed): column j of the matrix returned equals the coefficient
\* vector the direct integrator returns for the basis function B_j alone.
C12_ColumnEqualsDirectIntegrator ==
    MatrixBuilt =>
        \A j \in 0..(call.matrix.cols - 1) : \A m \in 0..call.order :
            MatrixEntry(m, j) = DirectOfBasis(j)[m + 1]

\* C12 (amended): column j of the matrix is the Gauss-Legendre sum, over the
\* nodes of every grid segment, of mult * hpoly[m] * B_j(x) for the basis
\* function B_j alone, so the matrix depends on the basis, the order and the
\* envelope only; the direct integrator approximates the same integral with
\* its own equally spaced nodes, so its coefficients for B_j agree with the
\* column only up to the errors of the two rules (here within 0.05 for the
\* basis functions that vanish at both ends of the grid).
C12_ColumnIsGaussLegendreSum ==
    MatrixBuilt =>
        /\ \A j \in 0..(call.matrix.cols - 1) : \A m \in 0..call.order :
              MatrixEntry(m, j) =
                  GLSum(call.out.interp, call.order, call.ampl, call.center,
                        call.width, m, j)
        /\ \A j \in InnerColumns : \A m \in 0..call.order :
              Close(MatrixEntry(m, j), DirectOfBasis(j)[m + 1], SCALE \div 20)
C12_Witness ==
    /\ MatrixBuilt /\ call.N = 3 /\ Len(call.grid) = 3 /\ call.order = 3
    /\ \E j \in InnerColumns :
          /\ MatrixEntry(0, j) # Zero
          /\ MatrixEntry(0, j) # DirectOfBasis(j)[1]

\* node p of the direct integrator, in the scaled coordinate
NodeY(p) == DMul(Num(p), DDiv(One, Num(QUADORDER)))
\* f takes equal values at center + width*y and center - width*y for every
\* node y
EqualSamples(f, center, width) ==
    \A p \in 1..(QUADORDER * QUADORDER) :
        LET fp == Fnc(f, DAdd(center, DMul(width, NodeY(p))))
            fm == Fnc(f, DSub(center, DMul(width, NodeY(p))))
        IN ~isNaN(fp) /\ fp = fm
\* ... and the values are finite, as is the weight of every node
FiniteSamples(f, center, width) ==
    \A p \in 0..(QUADORDER * QUADORDER) :
        /\ isFinite(Fnc(f, DAdd(center, DMul(width, NodeY(p)))))
        /\ isFinite(Fnc(f, DSub(center, DMul(width, NodeY(p)))))
FiniteWeights(ampl, width) ==
    isFinite(DDiv(DDiv(DMul(M_SQRT2, width), ampl), Num(QUADORDER)))
OddIndicesZero(moments) ==
    \A i \in 1..Len(moments) : i % 2 = 0 => moments[i] = Zero
\* the contribution of node p alone to every coefficient
NodeAlone(p, f, order, ampl, center, width) ==
    ghmNode(p, f, order, ampl, center, width,
            [hpoly |-> Filled(order + 1, Zero), result |-> Filled(order + 1, Zero),
             nfev |-> 0, samples |-> <<>>]).result

\* C13 (as claimed): if the function takes equal values at center + width*y
\* and center - width*y for every node y, every odd-index coefficient the
\* direct integrator returns is zero.
C13_SymmetricOddZero ==
    /\ (call.op = "computeGaussHermiteMoments"
          /\ EqualSamples(call.fnc, call.center, call.width))
         => OddIndicesZero(call.out.result)
    /\ (pc = "Integrated" /\ EqualSamples(args.fnc, obj.Center, obj.Width))
         => OddIndicesZero(obj.moments)

\* C13 (amended): if the function takes equal finite values at center +
\* width*y and center - width*y for every node y and the weight of the nodes
\* is finite (finite width, amplitude neither zero nor NaN), every
\* odd-index coefficient the direct integrator returns is exactly zero, the
\* contribution of each node to it being zero; the contribution of a node
\* y > 0 to an even index is mult * (fp + fm) * hpoly[i] and to an odd index
\* mult * (fp - fm) * hpoly[i].
C13_SymmetricFiniteOddZero ==
    /\ (call.op = "computeGaussHermiteMoments"
          /\ EqualSamples(call.fnc, call.center, call.width)
          /\ FiniteSamples(call.fnc, call.center, call.width)
          /\ FiniteWeights(call.ampl, call.width))
         => /\ OddIndicesZero(call.out.result)
            /\ \A p \in 0..(QUADORDER * QUADORDER) :
                  OddIndicesZero(NodeAlone(p, call.fnc, call.order, call.ampl,
                                           call.center, call.width))
    /\ (pc = "Integrated" /\ EqualSamples(args.fnc, obj.Center, obj.Width)
          /\ FiniteSamples(args.fnc, obj.Center, obj.Width)
          /\ FiniteWeights(obj.Ampl, obj.Width))
         => OddIndicesZero(obj.moments)
    /\ call.op = "computeGaussHermiteMoments" =>
          \A p \in 1..(QUADORDER * QUADORDER) : \A i \in 0..call.order :
              LET y == NodeY(p)
                  mult == DMul(DDiv(DDiv(DMul(M_SQRT2, call.width), call.ampl),
                                    Num(QUADORDER)),
                               exp(DMul(DMul(Fin(-(SCALE \div 2)), y), y)))
                  fp == Fnc(call.fnc, DAdd(call.center, DMul(call.width, y)))
                  fm == Fnc(call.fnc, DSub(call.center, DMul(call.width, y)))
                  h == hermiteArray(call.order, y, Filled(call.order + 1, Zero))
                  two == IF i % 2 = 0 THEN DAdd(fp, fm) ELSE DSub(fp, fm)
              IN NodeAlone(p, call.fnc, call.order, call.ampl, call.center,
                           call.width)[i + 1]
                   = DAdd(Zero, DMul(DMul(mult, two), h[i + 1]))
C13_Witness ==
    /\ call.op = "computeGaussHermiteMoments" /\ call.fnc = "box"
    /\ call.order = 3 /\ call.center = Zero /\ call.width = One
    /\ call.ampl = One
    /\ EqualSamples(call.fnc, call.center, call.width)
    /\ call.out.result[2] = Zero /\ call.out.result[4] = Zero
    /\ isFinite(call.out.result[3]) /\ call.out.result[3] # Zero

\* C14: on the fitting path the constructor reports no failure of the fit:
\* the solver is given a budget of 100 evaluations, whatever triple it
\* leaves is stored as amplitude, center and width, the constructor goes on
\* to the direct integration and always ends in the Integrated state with
\* order+1 coefficients, never in an error.
C14_FitFailureNotReported ==
    /\ [](FitPath => pc # "Thrown")
    /\ []((FitPath /\ pc = "Fitted") => fit.budget = 100 /\ params = fit.output)
    /\ [][(FitPath /\ pc = "Fitted") =>
             /\ pc' = "Integrating"
             /\ obj'.Ampl = fit.output[1] /\ obj'.Center = fit.output[2]
             /\ obj'.Width = fit.output[3]]_vars
    /\ [][(FitPath /\ pc = "Integrating") =>
             /\ pc' = "Integrated"
             /\ Len(obj'.moments) = args.order + 1]_vars
    /\ [][pc = "Integrated" => pc' = "Integrated" /\ obj' = obj]_vars
    /\ (FitPath ~> pc = "Integrated")
C14_Witness ==
    /\ FitPath /\ pc = "Integrated" /\ log = FitLog
    /\ isNaN(obj.Ampl) /\ isNaN(obj.Center) /\ isNaN(obj.Width)
    /\ Len(obj.moments) = args.order + 1

\* the node of index k in -Q^2..Q^2, as the integrator forms it
NodeX(k, center, width) ==
    IF k >= 0 THEN DAdd(center, DMul(width, NodeY(k)))
    ELSE DSub(center, DMul(width, NodeY(-k)))
\* the index k of the node sampled at position i of the run: 0, 1, -1, 2, -2..
NodeOfSample(i) == IF i = 1 THEN 0 ELSE IF i % 2 = 0 THEN i \div 2 ELSE -(i \div 2)

\* C15: one call of the direct integrator with Q = 7 evaluates the function
\* exactly 2*Q^2+1 = 99 times, once at the node center + width*k/Q for every
\* k in -Q^2..Q^2: both sides for p >= 1 and the centre node once, so that
\* the centre sample enters every coefficient once; a construction makes
\* one such call.
C15_NinetyNineEvaluations ==
    /\ QUADORDER = 7
    /\ call.op = "computeGaussHermiteMoments" =>
          LET Q2 == QUADORDER * QUADORDER
              xs == call.out.samples
          IN /\ call.out.nfev = (2 * Q2) + 1 /\ call.out.nfev = 99
             /\ Len(xs) = 99
             /\ \A i \in 1..Len(xs) :
                   xs[i] = NodeX(NodeOfSample(i), call.center, call.width)
             /\ \A k \in (-Q2)..Q2 :
                   /\ Cardinality({i \in 1..Len(xs) : NodeOfSample(i) = k}) = 1
                   /\ Close(NodeX(k, call.center, call.width),
                            DAdd(call.center,
                                 DMul(call.width, DDiv(Num(k), Num(QUADORDER)))),
                            ((Abs(call.width.v) \div SCALE) + 1) * (Abs(k) + 1))
             /\ \A i \in 0..call.order :
                   NodeAlone(0, call.fnc, call.order, call.ampl, call.center,
                             call.width)[i + 1]
                     = DAdd(Zero,
                            DMul(DMul(DMul(DDiv(DDiv(DMul(M_SQRT2, call.width),
                                                     call.ampl), Num(QUADORDER)),
                                           exp(Zero)),
                                      DAdd(Fnc(call.fnc, call.center), Zero)),
                                 hermiteArray(call.order, Zero,
                                              Filled(call.order + 1, Zero))[i + 1]))
    /\ pc = "Integrated" => nfev = 99
    /\ pc \in {"Uninitialized", "Thrown", "Fitting", "Solving", "Fitted",
               "Integrating"} => nfev = 0
C15_Witness ==
    /\ call.op = "computeGaussHermiteMoments" /\ call.fnc = "step"
    /\ call.center = One /\ call.width = Num(2) /\ call.order = 3
    /\ call.out.nfev = 99
    /\ call.out.samples[1] = One
    /\ call.out.samples[2] # call.out.samples[3]
    /\ DLt(call.out.samples[99], Num(-12))
    /\ DLt(Num(14), call.out.samples[98])

\* the number of nodes wanted before the bounds are applied
NodesWanted(N, order) == ((N + order + 1) \div 2) + 1

\* C16: for every basis degree N in 0..3 and every order >= 0 the number of
\* Gauss-Legendre nodes per segment is min(MAX_GL_TABLE, max(3,
\* floor((N+order+1)/2) + 1)): never below 3, never above the table maximum,
\* and whenever the cap is not hit a rule of that many nodes is exact for
\* polynomials of degree N+order, 2*nodes - 1 >= N + order; a matrix is
\* built with that many nodes on every segment.
C16_GaussLegendreNodeCount ==
    /\ call.op = "NnodesGL" =>
          LET want == NodesWanted(call.N, call.order)
          IN /\ call.out = (IF want > MAX_GL_TABLE THEN MAX_GL_TABLE
                            ELSE IF want < 3 THEN 3 ELSE want)
             /\ call.out >= 3 /\ call.out <= MAX_GL_TABLE
             /\ want <= MAX_GL_TABLE => (2 * call.out) - 1 >= call.N + call.order
    /\ MatrixBuilt =>
          /\ call.matrix.NnodesGL = Max(3, NodesWanted(call.N, call.order))
          /\ (2 * call.matrix.NnodesGL) - 1 >= call.N + call.order
          /\ Len(call.matrix.points)
               = Max(Len(call.grid) - 1, 0) * call.matrix.NnodesGL
          /\ \A n \in 0..(Len(call.grid) - 2) :
                Cardinality({q \in 1..Len(call.matrix.points) :
                               call.matrix.points[q].n = n}) = call.matrix.NnodesGL
C16_Witness ==
    /\ call.op = "NnodesGL" /\ call.N = 3 /\ call.order = 36
    /\ NodesWanted(call.N, call.order) = 21 /\ call.out = 20

\* the flat indices of rows 0..order and columns leftInd..leftInd+N
WindowIndices(order, N, cols, leftInd) ==
    { (m * cols) + c : m \in 0..order, c \in leftInd..(leftInd + N) }
\* the entries of a sequence of flat indices, as a set
Written(pt) == { pt.written[e] : e \in 1..Len(pt.written) }

\* C17: the matrix returned has order+1 rows and numBasisFunctions columns
\* and starts all zero; each of the (gridSize-1)*nodes quadrature points adds
\* mult*hpoly[m]*bspl[b] to exactly the (order+1)*(N+1) entries of rows
\* 0..order and columns leftInd..leftInd+N and leaves every other entry as it
\* was; with leftInd + N < numBasisFunctions every flat index written lies
\* inside the storage and in row m; a grid of fewer than two breakpoints
\* yields no accumulation at all.
C17_MatrixAccumulation ==
    MatrixBuilt =>
        LET mx == call.matrix
            N == call.N
            size == mx.rows * mx.cols
        IN /\ mx.rows = call.order + 1
           /\ mx.cols = call.out.interp.numValues
           /\ Len(mx.data) = size /\ Len(mx.initial) = size
           /\ \A i \in 1..size : mx.initial[i] = Zero
           /\ Len(mx.points) = Max(Len(call.grid) - 1, 0) * mx.NnodesGL
           /\ Len(call.grid) < 2 => mx.points = <<>> /\ mx.data = mx.initial
           /\ mx.points # <<>> =>
                 /\ mx.points[1].before = mx.initial
                 /\ mx.points[Len(mx.points)].after = mx.data
           /\ \A q \in 1..(Len(mx.points) - 1) :
                 mx.points[q + 1].before = mx.points[q].after
           /\ \A q \in 1..Len(mx.points) :
                 LET pt == mx.points[q]
                 IN /\ Len(pt.written) = (call.order + 1) * (N + 1)
                    /\ Cardinality(Written(pt)) = (call.order + 1) * (N + 1)
                    /\ Written(pt) = WindowIndices(call.order, N, mx.cols, pt.leftInd)
                    /\ pt.leftInd + N < mx.cols =>
                          /\ ~pt.outside
                          /\ \A e \in 1..Len(pt.written) :
                                /\ pt.written[e] \in 0..(size - 1)
                                /\ pt.written[e] \div mx.cols = (e - 1) \div (N + 1)
                    /\ \A i \in 0..(size - 1) :
                          IF i \in Written(pt)
                          THEN pt.after[i + 1] =
                                 DAdd(pt.before[i + 1],
                                      DMul(DMul(pt.mult, pt.hpoly[(i \div mx.cols) + 1]),
                                           pt.bspl[(i % mx.cols) - pt.leftInd + 1]))
                          ELSE pt.after[i + 1] = pt.before[i + 1]
C17_Witness ==
    /\ MatrixBuilt /\ call.N = 2 /\ Len(call.grid) = 3 /\ call.order = 3
    /\ call.matrix.rows = 4 /\ call.matrix.cols = 4
    /\ \E q \in 1..Len(call.matrix.points) :
          LET pt == call.matrix.points[q]
          IN /\ pt.leftInd = 1
             /\ pt.after[1] = pt.before[1] /\ pt.before[1] # Zero
             /\ pt.after[2] # pt.before[2]
====
